---- MODULE Spec2Model ----
(***************************************************************************)
(* TmServer: the mapobject / feature REST handlers of tmserver/api, the    *)
(* upload of the files of an acquisition (tmserver/experiment/upload.py)   *)
(* and the label results of the tools (tmaps/tool/result/label.py).        *)
(*                                                                         *)
(* The store is the experiment database the handlers query through         *)
(* tm.utils.ExperimentSession.  Geometry is one-dimensional: a polygon is  *)
(* the closed interval [lo, hi] of a global axis, so that ST_CoveredBy is  *)
(* interval inclusion and the boundary of a polygon is {lo, hi}.           *)
(*                                                                         *)
(* Every handler is one action.  A handler that raises ends with the name  *)
(* of the exception in resp.exc; a name the handler reads without ever     *)
(* binding it raises NameError at the statement that reads it, and the     *)
(* statements after it do not run.                                         *)
(***************************************************************************)
EXTENDS Integers, Sequences, FiniteSets, TLC

VARIABLES types, layers, mapobjects, segmentations, features, featureValues,
          sequences, deleting, resp,
          gen, containers, labelResults, files, uploads

vars == <<types, layers, mapobjects, segmentations, features, featureValues,
          sequences, deleting, resp,
          gen, containers, labelResults, files, uploads>>

\* the tables of the experiment database, and the id sequences of the
\* tables that rows are deleted from
store == <<types, layers, mapobjects, segmentations, features, featureValues,
           sequences>>

\* the tool results and the attribute containers they refer to
tool == <<containers, labelResults>>

\* the files of the acquisition and the upload_file requests in progress
upload == <<files, uploads>>

----------------------------------------------------------------------------
(* Bounds *)

\* at most this many object segmentations are in the store initially
MaxObjects == 2

\* add_feature_values is served only while it leaves at most this many
\* features registered, none with an id beyond MaxFeatures + 1
MaxFeatures == 2

\* create_mapobject_type is served only while fewer than this many user
\* types have been created
MaxTypes == 2

\* at most this many label results are constructed
MaxResults == 3

\* at most this many upload_file requests run at the same time
MaxUploads == 2

----------------------------------------------------------------------------
(* Absent request parameters: request.args.get / data.get return None *)

None == "None"

NoInt == 0 - 1

----------------------------------------------------------------------------
(* The plate -> well -> site hierarchy (tm.Plate, tm.Well, tm.Site) *)

Plates == {[id |-> 1, name |-> "p1"]}

\* offset and image_size of a well on the global axis
Wells ==
  { [id |-> 1, plate_id |-> 1, name |-> "A", offset |-> 0, image_size |-> 4],
    [id |-> 2, plate_id |-> 1, name |-> "B", offset |-> 6, image_size |-> 2] }

Sites ==
  { [id |-> 1, well_id |-> 1, y |-> 0, x |-> 0, offset |-> 0, image_size |-> 2],
    [id |-> 2, well_id |-> 1, y |-> 0, x |-> 1, offset |-> 2, image_size |-> 2],
    [id |-> 3, well_id |-> 2, y |-> 0, x |-> 0, offset |-> 6, image_size |-> 2] }

\* (plate_name, well_name) of a request; "zz" names no plate and no well
NamePairs == {<<"p1", "A">>, <<"p1", "B">>, <<"p1", "zz">>, <<"zz", "A">>}

\* (well_pos_y, well_pos_x) of a request; no site has x = 1 in well B
PositionPairs == {NoInt, 0} \X {NoInt, 0, 1}

TPoints == {0, 1}

ZPlanes == {0}

----------------------------------------------------------------------------
(* The static mapobject types: one per reference kind, whose mapobjects    *)
(* carry the outline of the plate / well / site they stand for (ref_id).   *)

StaticTypes ==
  { [id |-> 1, name |-> "Plates", ref_type |-> "Plate"],
    [id |-> 2, name |-> "Wells",  ref_type |-> "Well"],
    [id |-> 3, name |-> "Sites",  ref_type |-> "Site"] }

\* the layers of the static types hold the outlines at time point 0
StaticLayers ==
  { [id |-> 1, mapobject_type_id |-> 2, tpoint |-> 0, zplane |-> 0],
    [id |-> 2, mapobject_type_id |-> 3, tpoint |-> 0, zplane |-> 0],
    [id |-> 3, mapobject_type_id |-> 1, tpoint |-> 0, zplane |-> 0],
    [id |-> 4, mapobject_type_id |-> 1, tpoint |-> 1, zplane |-> 0],
    [id |-> 5, mapobject_type_id |-> 2, tpoint |-> 1, zplane |-> 0],
    [id |-> 6, mapobject_type_id |-> 3, tpoint |-> 1, zplane |-> 0] }

StaticMapobjects ==
  { [id |-> 1, mapobject_type_id |-> 2, partition_key |-> 1, ref_id |-> 1],
    [id |-> 2, mapobject_type_id |-> 2, partition_key |-> 2, ref_id |-> 2],
    [id |-> 3, mapobject_type_id |-> 3, partition_key |-> 1, ref_id |-> 1],
    [id |-> 4, mapobject_type_id |-> 3, partition_key |-> 1, ref_id |-> 2],
    [id |-> 5, mapobject_type_id |-> 3, partition_key |-> 2, ref_id |-> 3] }

Seg(mo, layer, pk, label, lo, hi) ==
  [mapobject_id |-> mo, segmentation_layer_id |-> layer, partition_key |-> pk,
   label |-> label, lo |-> lo, hi |-> hi]

StaticSegmentations ==
  { Seg(1, 1, 1, 1, 0, 4), Seg(2, 1, 2, 2, 6, 8),
    Seg(3, 2, 1, 1, 0, 2), Seg(4, 2, 1, 2, 2, 4), Seg(5, 2, 2, 3, 6, 8) }

----------------------------------------------------------------------------
(* Segmented objects of a user type ("Cells", id 4), as the image analysis *)
(* pipeline stores them: partition_key is the id of the well they lie in.  *)

CellsType == [id |-> 4, name |-> "Cells", ref_type |-> "Site"]

CellsLayers ==
  { [id |-> 7, mapobject_type_id |-> 4, tpoint |-> 0, zplane |-> 0],
    [id |-> 8, mapobject_type_id |-> 4, tpoint |-> 1, zplane |-> 0] }

CellsSegmentations ==
  { Seg(6, 7, 1, 1, 0, 1),    \* touches the boundary of well A and of site (0,0)
    Seg(6, 8, 1, 1, 0, 1),    \* the same object at time point 1
    Seg(7, 7, 1, 2, 1, 3),    \* inside well A, spans both of its sites
    Seg(7, 8, 1, 2, 1, 2),    \* the same object at time point 1
    Seg(8, 7, 1, 3, 3, 5),    \* reaches beyond the outline of well A
    Seg(9, 7, 2, 1, 6, 7) }   \* lies in well B

CellsMapobject(s) ==
  [id |-> s.mapobject_id, mapobject_type_id |-> 4,
   partition_key |-> s.partition_key, ref_id |-> NoInt]

FeatureNames == {"area", "mean"}

\* the keys of the value map the pipeline stored with an object: every
\* registered feature for object 6, "area" alone for object 7, no map for
\* the others.  A key of the hstore is the decimal string of a feature id
\* and stands here as the number it spells.
CellsValueKeys(m) ==
  IF m.id = 6 THEN {1, 2} ELSE IF m.id = 7 THEN {2} ELSE {}

\* tm.FeatureValues of the objects at time point 0
CellsFeatureValues(objs) ==
  {[mapobject_id |-> m.id, partition_key |-> m.partition_key, tpoint |-> 0,
    values |-> [k \in CellsValueKeys(m) |-> 10 * k + m.id]] :
     m \in {m \in objs : CellsValueKeys(m) # {}}}

\* nothing is in flight between the two statements of delete_mapobject_type
NotDeleting == [mapobject_type_id |-> NoInt, rowcount |-> 0]

\* no feature, or "mean" registered before "area"
CellsFeatures ==
  { {},
    {[id |-> 1, name |-> "mean", mapobject_type_id |-> 4],
     [id |-> 2, name |-> "area", mapobject_type_id |-> 4]} }

----------------------------------------------------------------------------
(* Requests and responses *)

NoRequest ==
  [op |-> "none", plate_name |-> None, well_name |-> None,
   well_pos_y |-> NoInt, well_pos_x |-> NoInt, tpoint |-> NoInt,
   zplane |-> NoInt, mapobject_type_id |-> NoInt, feature_id |-> NoInt,
   image |-> <<>>, names |-> <<>>, labels |-> <<>>, values |-> <<>>]

Request(op, plate, well, y, x, t, z, type) ==
  [NoRequest EXCEPT !.op = op, !.plate_name = plate, !.well_name = well,
                    !.well_pos_y = y, !.well_pos_x = x, !.tpoint = t,
                    !.zplane = z, !.mapobject_type_id = type]

\* labeled pixel arrays posted to add_segmentations: as wide as a site, or
\* one pixel short
Images == {<<1, 2>>, <<1>>}

\* (names, labels, values) posted to add_feature_values; the last has one
\* row of values for two labels
ValueTables ==
  { [names |-> <<"area">>, labels |-> <<1, 2>>, values |-> <<(<<5>>), (<<6>>)>>],
    [names |-> <<"mean", "area">>, labels |-> <<1>>, values |-> <<(<<3, 4>>)>>],
    [names |-> <<"area">>, labels |-> <<1, 2>>, values |-> <<(<<5>>)>>] }

\* what a handler leaves behind: the exception it raised ("ok" if none), the
\* reference it resolved, and the rows it returned or emitted
Response(req, exc, kind, pk, ref, queried, instances, rows) ==
  [req |-> req, exc |-> exc, ref_kind |-> kind, partition_key |-> pk,
   ref |-> ref, queried |-> queried, instances |-> instances, rows |-> rows]

NoRef == [lo |-> NoInt, hi |-> NoInt]

Raise(req, exc) == Response(req, exc, None, NoInt, NoRef, FALSE, {}, <<>>)

----------------------------------------------------------------------------
(* The state of what the requests on mapobjects and features do not touch:  *)
(* the stream of a table, the label results of the tools, the files of the  *)
(* acquisition.                                                             *)

\* no generator of a table has been created
NoStream ==
  [pc |-> "none", feature_names |-> <<>>, instances |-> <<>>, i |-> 0,
   session |-> FALSE, data |-> <<>>, chunks |-> <<>>]

\* a dict without keys
EmptyDict == [k \in {} |-> 0]

\* the dicts that exist before any result is constructed: the default value
\* of the parameter attributes of ScalarLabelResult.__init__ and that of
\* ContinuousLabelResult.__init__, each evaluated once when its def statement
\* runs, and a dict a caller holds
InitialContainers ==
  [c \in {"ScalarLabelResult", "ContinuousLabelResult", "caller"} |->
     EmptyDict]

\* the files register_upload has registered for the acquisition
RegisteredFiles == [name \in {"a.png", "b.png"} |-> "WAITING"]

\* an upload_file request that is not running
NoUpload == [pc |-> "idle", filename |-> None, exc |-> "ok"]

QuietInit ==
  /\ gen = NoStream
  /\ containers = InitialContainers
  /\ labelResults = <<>>
  /\ files = RegisteredFiles
  /\ uploads = [u \in 1..MaxUploads |-> NoUpload]

----------------------------------------------------------------------------

Init ==
  /\ \E cells \in BOOLEAN :
     \E objs \in SUBSET CellsSegmentations :
     \E feats \in CellsFeatures :
       /\ Cardinality(objs) <= MaxObjects
       /\ ~cells => (objs = {} /\ feats = {})
       /\ types = StaticTypes \cup (IF cells THEN {CellsType} ELSE {})
       /\ layers = StaticLayers \cup (IF cells THEN CellsLayers ELSE {})
       /\ segmentations = StaticSegmentations \cup objs
       /\ mapobjects = StaticMapobjects \cup {CellsMapobject(s) : s \in objs}
       /\ features = feats
       /\ featureValues =
            IF feats = {} THEN {}
            ELSE CellsFeatureValues({CellsMapobject(s) : s \in objs})
       /\ sequences = [mapobject_types |-> IF cells THEN 4 ELSE 3,
                       features |-> IF feats = {} THEN 0 ELSE 2]
  /\ deleting = NotDeleting
  /\ resp = Raise(NoRequest, "ok")
  /\ QuietInit

----------------------------------------------------------------------------
(* Exceptions *)

\* raised for a request with bad parameters: MalformedRequestError, and
\* MissingGETParameterError for a missing one
MalformedInputErrors == {"MalformedRequestError", "MissingGETParameterError"}

\* raised when nothing is found: ResourceNotFoundError by the handlers,
\* NoResultFound by Query.one()
NotFoundErrors == {"ResourceNotFoundError", "NoResultFound"}

----------------------------------------------------------------------------
(* Queries *)

\* Query.one(): NoResultFound for no row, MultipleResultsFound for several
One(rows) ==
  IF rows = {} THEN "NoResultFound"
  ELSE IF Cardinality(rows) > 1 THEN "MultipleResultsFound"
  ELSE "ok"

\* faulty variant: the operands are exchanged, b is covered by a
ST_CoveredBy_Swapped(a, b) == a.lo <= b.lo /\ b.hi <= a.hi

\* ST_CoveredBy: no point of a lies outside b (a may touch the boundary of b)
ST_CoveredBy(a, b) == b.lo <= a.lo /\ a.hi <= b.hi

\* a intersects ST_Boundary(b)
ST_IntersectsBoundary(a, b) ==
  (a.lo <= b.lo /\ b.lo <= a.hi) \/ (a.lo <= b.hi /\ b.hi <= a.hi)

MaxId(rows) == IF rows = {} THEN 0 ELSE CHOOSE i \in {r.id : r \in rows} :
                                         \A r \in rows : r.id <= i

LayerRows(ls, type, t, z) ==
  {l \in ls : l.mapobject_type_id = type /\ l.tpoint = t /\ l.zplane = z}

\* session.get_or_create(tm.SegmentationLayer, ...): the row is committed
\* when it is created, so it stays when the handler raises later on
GetOrCreateLayer(ls, type, t, z) ==
  IF LayerRows(ls, type, t, z) # {} THEN ls
  ELSE ls \cup {[id |-> MaxId(ls) + 1, mapobject_type_id |-> type,
                 tpoint |-> t, zplane |-> z]}

WellQuery(plate_name, well_name) ==
  {w \in Wells : w.name = well_name
                 /\ \E p \in Plates : p.id = w.plate_id /\ p.name = plate_name}

SiteQuery(y, x, well_id) ==
  {s \in Sites : s.y = y /\ s.x = x /\ s.well_id = well_id}

RefSegmentQuery(ref_id, type_id, pk) ==
  {s \in segmentations :
     \E m \in mapobjects : /\ m.id = s.mapobject_id
                           /\ m.ref_id = ref_id
                           /\ m.mapobject_type_id = type_id
                           /\ m.partition_key = pk}

\* faulty variant: the filter on segmentation_layer_id is missing
ContainmentQuery_AnyLayer(segs, pk, layer_ids, ref) ==
  {s \in segs : s.partition_key = pk /\ ST_CoveredBy(s, ref)}

\* the segmentations of one partition and of the given layers whose polygon
\* is covered by the reference polygon
ContainmentQuery(segs, pk, layer_ids, ref) ==
  {s \in segs : /\ s.partition_key = pk
                /\ s.segmentation_layer_id \in layer_ids
                /\ ST_CoveredBy(s, ref)}

\* the orders in which Query.all() may return a set of rows: any, when the
\* query has no ORDER BY
AnyOrder(rows) ==
  {q \in [1..Cardinality(rows) -> rows] :
     \A i, j \in 1..Cardinality(rows) : i # j => q[i] # q[j]}

----------------------------------------------------------------------------
(* Resolution of the reference instance of a request: the named well, or    *)
(* the site at (well_pos_y, well_pos_x) of it when both are given, and the   *)
(* segmentation of the static mapobject that carries its outline.           *)

Resolved(exc, kind, pk, inst, ref) ==
  [exc |-> exc, ref_kind |-> kind, partition_key |-> pk,
   offset |-> inst.offset, image_size |-> inst.image_size,
   ref |-> [lo |-> ref.lo, hi |-> ref.hi]]

NoInstance == [offset |-> NoInt, image_size |-> NoInt]

ResolveReference(plate_name, well_name, well_pos_y, well_pos_x) ==
  LET wells == WellQuery(plate_name, well_name) IN
  IF One(wells) # "ok"
  THEN Resolved(One(wells), None, NoInt, NoInstance, NoRef)
  ELSE
    LET well == CHOOSE w \in wells : TRUE
        partition_key == well.id
        both == well_pos_y # NoInt /\ well_pos_x # NoInt
        sites == SiteQuery(well_pos_y, well_pos_x, well.id)
    IN
    IF both /\ One(sites) # "ok"
    THEN Resolved(One(sites), None, partition_key, NoInstance, NoRef)
    ELSE
      LET ref_instance == IF both THEN CHOOSE s \in sites : TRUE ELSE well
          kind == IF both THEN "Site" ELSE "Well"
          ref_types == {t \in types : t.ref_type = kind}
      IN
      IF One(ref_types) # "ok"
      THEN Resolved(One(ref_types), kind, partition_key, ref_instance, NoRef)
      ELSE
        LET ref_mapobject_type == CHOOSE t \in ref_types : TRUE
            ref_segments == RefSegmentQuery(ref_instance.id,
                                            ref_mapobject_type.id,
                                            partition_key)
        IN
        IF One(ref_segments) # "ok"
        THEN Resolved(One(ref_segments), kind, partition_key, ref_instance,
                      NoRef)
        ELSE Resolved("ok", kind, partition_key, ref_instance,
                      CHOOSE r \in ref_segments : TRUE)

----------------------------------------------------------------------------
(* GET .../mapobject_types/<id>/segmentations *)

GetSegmentationsResponses(req) ==
  LET layer_rows == GetOrCreateLayer(layers, req.mapobject_type_id,
                                     req.tpoint, req.zplane)
      layer_id == (CHOOSE l \in LayerRows(layer_rows, req.mapobject_type_id,
                                          req.tpoint, req.zplane) : TRUE).id
      r == ResolveReference(req.plate_name, req.well_name,
                            req.well_pos_y, req.well_pos_x)
      polygons == ContainmentQuery(segmentations, r.partition_key,
                                   {layer_id}, r.ref)
  IN
  IF r.exc # "ok"
  THEN {Response(req, r.exc, r.ref_kind, r.partition_key, r.ref, FALSE, {},
                 <<>>)}
  ELSE IF polygons = {}
  THEN {Response(req, "ResourceNotFoundError", r.ref_kind, r.partition_key,
                 r.ref, TRUE, {}, <<>>)}
  ELSE {Response(req, "ok", r.ref_kind, r.partition_key, r.ref, TRUE, {},
                 rows) : rows \in AnyOrder(polygons)}

GetSegmentations ==
  \E names \in NamePairs, pos \in PositionPairs, t \in TPoints, z \in ZPlanes :
  \E type \in {ty.id : ty \in types} :
    LET req == Request("get_segmentations", names[1], names[2],
                       pos[1], pos[2], t, z, type)
    IN
    /\ resp.req.op = "none"
    /\ layers' = GetOrCreateLayer(layers, type, t, z)
    /\ resp' \in GetSegmentationsResponses(req)
    /\ UNCHANGED <<gen, tool, upload,
                   types, mapobjects, segmentations, features, featureValues,
                   sequences, deleting>>

----------------------------------------------------------------------------
(* POST .../mapobject_types *)

\* the id of a new row is the next value of the sequence of its table: the
\* id of a deleted row is not handed out again
CreateMapobjectType ==
  \E name \in {"Cells"} :
    LET found == {t \in types : t.name = name /\ t.ref_type = "Site"}
        id == sequences.mapobject_types + 1
    IN
    /\ resp.req.op = "none"
    /\ found = {} => id <= Cardinality(StaticTypes) + MaxTypes
    /\ types' = IF found # {} THEN types
                ELSE types \cup {[id |-> id, name |-> name,
                                  ref_type |-> "Site"]}
    /\ sequences' = IF found # {} THEN sequences
                    ELSE [sequences EXCEPT !.mapobject_types = id]
    /\ resp' = Raise([NoRequest EXCEPT !.op = "create_mapobject_type"], "ok")
    /\ UNCHANGED <<gen, tool, upload,
                   layers, mapobjects, segmentations, features, featureValues,
                   deleting>>

----------------------------------------------------------------------------
(* The check of the coordinate pair in the two POST handlers *)

PairingError(well_pos_y, well_pos_x) ==
  IF well_pos_y # NoInt /\ well_pos_x # NoInt THEN "ok"
  ELSE IF well_pos_y # NoInt \/ well_pos_x = NoInt
  THEN "MissingGETParameterError"     \* ('well_pos_x')
  ELSE "MissingGETParameterError"     \* ('well_pos_y')

----------------------------------------------------------------------------
(* POST .../mapobject_types/<id>/segmentations *)

\* the handler up to the look-up of the existing segmentations, whose filter
\* reads layer_id, a name the handler never binds
AddSegmentationsResponse(req) ==
  LET r == ResolveReference(req.plate_name, req.well_name,
                            req.well_pos_y, req.well_pos_x)
  IN
  IF PairingError(req.well_pos_y, req.well_pos_x) # "ok"
  THEN Raise(req, PairingError(req.well_pos_y, req.well_pos_x))
  ELSE IF r.exc # "ok"
  THEN Response(req, r.exc, r.ref_kind, r.partition_key, r.ref, FALSE, {}, <<>>)
  ELSE IF Len(req.image) # r.image_size
  THEN Response(req, "MalformedRequestError", r.ref_kind, r.partition_key,
                r.ref, FALSE, {}, <<>>)
  ELSE Response(req, "NameError", r.ref_kind, r.partition_key, r.ref, FALSE,
                {}, <<>>)

\* faulty variant: a Mapobject is added and flushed before the statement
\* that raises
AddedMapobjects_Flushed(req, r) ==
  IF r.exc = "NameError"
  THEN {[id |-> MaxId(mapobjects) + 1,
         mapobject_type_id |-> req.mapobject_type_id,
         partition_key |-> r.partition_key, ref_id |-> NoInt]}
  ELSE {}

\* the Mapobjects the second session has flushed when the handler ends, r
\* being the response: none.  The first session raises before the second
\* is opened; and in the loop of the second, session.add(mapobject) reads
\* mapobject before any assignment for a new label, and the segmentation of
\* a known label is built from paritition_key, which is not bound either.
AddedMapobjects(req, r) == {}

AddSegmentations ==
  \E names \in NamePairs, pos \in PositionPairs, t \in TPoints, z \in ZPlanes :
  \E type \in {ty.id : ty \in types}, image \in Images :
    LET req == [Request("add_segmentations", names[1], names[2],
                        pos[1], pos[2], t, z, type) EXCEPT !.image = image]
    IN
    /\ resp.req.op = "none"
    /\ layers' = IF PairingError(pos[1], pos[2]) = "ok"
                 THEN GetOrCreateLayer(layers, type, t, z)
                 ELSE layers
    /\ resp' = AddSegmentationsResponse(req)
    /\ mapobjects' = mapobjects
                     \cup AddedMapobjects(req, AddSegmentationsResponse(req))
    /\ UNCHANGED <<gen, tool, upload,
                   types, segmentations, features, featureValues,
                   sequences, deleting>>

----------------------------------------------------------------------------
(* POST .../mapobject_types/<id>/feature-values *)

\* pd.DataFrame(values, columns=names, index=labels) raises unless there is
\* a row per label and a value per name in every row
DataFrameOk(names, labels, values) ==
  /\ Len(values) = Len(labels)
  /\ \A i \in 1..Len(values) : Len(values[i]) = Len(names)

RECURSIVE GetOrCreateFeatures(_, _, _, _)
\* session.get_or_create(tm.Feature, ...) for each column, in column order;
\* last is the last id the sequence of the table handed out
GetOrCreateFeatures(fs, last, names, type) ==
  IF names = <<>> THEN [features |-> fs, last |-> last]
  ELSE LET name == Head(names)
           found == {f \in fs : f.name = name /\ f.mapobject_type_id = type}
       IN IF found # {}
          THEN GetOrCreateFeatures(fs, last, Tail(names), type)
          ELSE GetOrCreateFeatures(
                 fs \cup {[id |-> last + 1, name |-> name,
                           mapobject_type_id |-> type]},
                 last + 1, Tail(names), type)

\* the handler up to the get_or_create of the segmentation layer, whose
\* arguments read zplane, a name the handler never binds
AddFeatureValuesResponse(req) ==
  IF PairingError(req.well_pos_y, req.well_pos_x) # "ok"
  THEN Raise(req, PairingError(req.well_pos_y, req.well_pos_x))
  ELSE IF ~DataFrameOk(req.names, req.labels, req.values)
  THEN Raise(req, "ResourceNotFoundError")
  ELSE Raise(req, "NameError")

AddFeatureValues ==
  \E names \in {<<"p1", "A">>, <<"zz", "A">>}, pos \in PositionPairs :
  \E type \in {ty.id : ty \in types \ StaticTypes}, table \in ValueTables :
    LET req == [Request("add_feature_values", names[1], names[2],
                        pos[1], pos[2], 0, NoInt, type)
                  EXCEPT !.names = table.names, !.labels = table.labels,
                         !.values = table.values]
        exc == AddFeatureValuesResponse(req).exc
        created == GetOrCreateFeatures(features, sequences.features,
                                       req.names, type)
    IN
    /\ resp.req.op = "none"
    /\ features' = IF exc = "NameError" THEN created.features ELSE features
    /\ sequences' = IF exc = "NameError"
                    THEN [sequences EXCEPT !.features = created.last]
                    ELSE sequences
    /\ Cardinality(features') <= MaxFeatures
    /\ sequences'.features <= MaxFeatures + 1
    /\ resp' = AddFeatureValuesResponse(req)
    /\ UNCHANGED <<gen, tool, upload,
                   types, layers, mapobjects, segmentations, featureValues,
                   deleting>>

----------------------------------------------------------------------------
(* GET .../mapobject_types/<id>/feature-values and .../metadata: the part   *)
(* of the handler that runs before the response is built                    *)

\* the reference instances of a table, as (ref_id, partition_key)
SiteInstances(plate_name, well_name, well_pos_y, well_pos_x) ==
  {[ref_id |-> s.id, partition_key |-> s.well_id] : s \in
     {s \in Sites :
        \E w \in Wells : \E p \in Plates :
          /\ w.id = s.well_id /\ p.id = w.plate_id
          /\ (plate_name # None => p.name = plate_name)
          /\ (well_name # None => w.name = well_name)
          /\ (well_pos_y # NoInt => s.y = well_pos_y)
          /\ (well_pos_x # NoInt => s.x = well_pos_x)}}

WellInstances(plate_name, well_name) ==
  {[ref_id |-> w.id, partition_key |-> w.id] : w \in
     {w \in Wells :
        \E p \in Plates :
          /\ p.id = w.plate_id
          /\ (plate_name # None => p.name = plate_name)
          /\ (well_name # None => w.name = well_name)}}

\* faulty variant: only the plate level refuses a site position
CoarseRefTypes_PlateOnly == {"Plate"}

\* the reference kinds that do not admit a site position
CoarseRefTypes == {"Plate", "Well"}

\* the filename is formatted with mapobject_type_name, a name the handler
\* never binds: no request gets past it
TableResponse(req) ==
  LET found == {t \in types : t.id = req.mapobject_type_id}
      mapobject_type == CHOOSE t \in found : TRUE
      pos == req.well_pos_y # NoInt \/ req.well_pos_x # NoInt
  IN
  IF pos
  THEN IF found = {} THEN Raise(req, "AttributeError")
       ELSE IF mapobject_type.ref_type \in CoarseRefTypes
       THEN Raise(req, "MalformedRequestError")
       ELSE Response(req, "NameError", None, NoInt, NoRef, TRUE,
                     SiteInstances(req.plate_name, req.well_name,
                                   req.well_pos_y, req.well_pos_x), <<>>)
  ELSE IF req.well_name # None /\ found = {} THEN Raise(req, "AttributeError")
       ELSE IF req.well_name # None /\ mapobject_type.ref_type = "Plate"
       THEN Raise(req, "MalformedRequestError")
       ELSE Response(req, "NameError", None, NoInt, NoRef, TRUE,
                     WellInstances(req.plate_name, req.well_name), <<>>)

\* (plate_name, well_name) of a table request: both are optional
TableNamePairs ==
  NamePairs \cup {<<None, None>>, <<"p1", None>>, <<None, "A">>}

TableRequests(op) ==
  {Request(op, names[1], names[2], pos[1], pos[2], t, NoInt, type) :
     names \in TableNamePairs, pos \in PositionPairs, t \in {NoInt, 0},
     type \in 1..Cardinality(StaticTypes) + 1}

GetFeatureValues ==
  \E req \in TableRequests("get_feature_values") :
    /\ resp.req.op = "none"
    /\ resp' = TableResponse(req)
    /\ UNCHANGED <<gen, tool, upload, store, deleting>>

GetMetadata ==
  \E req \in TableRequests("get_metadata") :
    /\ resp.req.op = "none"
    /\ resp' = TableResponse(req)
    /\ UNCHANGED <<gen, tool, upload, store, deleting>>

----------------------------------------------------------------------------

\* the response is sent and the next request can be served
Respond ==
  /\ resp.req.op # "none"
  /\ resp' = Raise(NoRequest, "ok")
  /\ UNCHANGED <<gen, tool, upload, store, deleting>>

----------------------------------------------------------------------------
(* DELETE .../mapobject_types/<id>: two statements in a session without a   *)
(* transaction, each committed when it is executed, so that other requests  *)
(* are served between them.                                                 *)

\* the ON DELETE CASCADE of the rows that refer to a deleted mapobject: its
\* segmentations and its value maps go with it
CascadeMapobjects_None(rows, deleted) == rows

CascadeMapobjects(rows, deleted) ==
  {r \in rows : ~\E m \in deleted : /\ m.id = r.mapobject_id
                                     /\ m.partition_key = r.partition_key}

\* session.query(tm.Mapobject).filter_by(mapobject_type_id=...).delete()
DeleteMapobjects ==
  \E type \in {ty.id : ty \in types \ StaticTypes} :
    LET deleted == {m \in mapobjects : m.mapobject_type_id = type} IN
    /\ resp.req.op = "none"
    /\ deleting = NotDeleting
    /\ mapobjects' = mapobjects \ deleted
    /\ segmentations' = CascadeMapobjects(segmentations, deleted)
    /\ featureValues' = CascadeMapobjects(featureValues, deleted)
    /\ deleting' = [mapobject_type_id |-> type,
                    rowcount |-> Cardinality(deleted)]
    /\ UNCHANGED <<gen, tool, upload,
                   types, layers, features, sequences, resp>>

\* session.query(tm.MapobjectType).filter_by(id=...).delete(), with the
\* ON DELETE CASCADE of the layers and features of the type
DeleteMapobjectType ==
  LET type == deleting.mapobject_type_id IN
  /\ resp.req.op = "none"
  /\ deleting # NotDeleting
  /\ types' = {t \in types : t.id # type}
  /\ layers' = {l \in layers : l.mapobject_type_id # type}
  /\ features' = {f \in features : f.mapobject_type_id # type}
  /\ deleting' = NotDeleting
  /\ resp' = Raise([NoRequest EXCEPT !.op = "delete_mapobject_type",
                                     !.mapobject_type_id = type], "ok")
  /\ UNCHANGED <<gen, tool, upload,
                 mapobjects, segmentations, featureValues, sequences>>

----------------------------------------------------------------------------
(* DELETE .../features/<id> *)

\* session.query(tm.FeatureValue.values.delete(str(feature_id))) builds a
\* query and never executes it: no value map changes.  The models of this
\* code base name the class tm.FeatureValues everywhere else; where
\* tm.FeatureValue does not resolve the statement raises AttributeError and
\* the feature is not deleted either.
DeleteFeature ==
  \E feature_id \in {f.id : f \in features}, resolves \in BOOLEAN :
    LET req == [NoRequest EXCEPT !.op = "delete_feature",
                                 !.feature_id = feature_id]
    IN
    /\ resp.req.op = "none"
    /\ features' = IF resolves THEN {f \in features : f.id # feature_id}
                   ELSE features
    /\ resp' = Raise(req, IF resolves THEN "ok" ELSE "AttributeError")
    /\ UNCHANGED <<gen, tool, upload,
                   types, layers, mapobjects, segmentations, featureValues,
                   sequences, deleting>>

----------------------------------------------------------------------------

Next ==
  \/ CreateMapobjectType
  \/ AddSegmentations
  \/ GetSegmentations
  \/ AddFeatureValues
  \/ GetFeatureValues
  \/ GetMetadata
  \/ Respond

Spec == Init /\ [][Next]_vars

----------------------------------------------------------------------------
(* The requests that write objects and the requests that delete them, on a *)
(* store with two objects of the user type and in which no request has     *)
(* asked yet for the layer of the sites at time point 1.                   *)

IngestInit ==
  /\ \E cells \in BOOLEAN :
     LET objs == IF cells THEN {Seg(6, 7, 1, 1, 0, 1), Seg(7, 7, 1, 2, 1, 3)}
                 ELSE {}
     IN
     /\ types = StaticTypes \cup (IF cells THEN {CellsType} ELSE {})
     /\ layers = {l \in StaticLayers :
                    l.mapobject_type_id # 3 \/ l.tpoint = 0}
                  \cup (IF cells THEN CellsLayers ELSE {})
     /\ segmentations = StaticSegmentations \cup objs
     /\ mapobjects = StaticMapobjects \cup {CellsMapobject(s) : s \in objs}
     /\ features = IF cells THEN CHOOSE fs \in CellsFeatures : fs # {} ELSE {}
     /\ featureValues =
          CellsFeatureValues({CellsMapobject(s) : s \in objs})
     /\ sequences = [mapobject_types |-> IF cells THEN 4 ELSE 3,
                     features |-> IF cells THEN 2 ELSE 0]
  /\ deleting = NotDeleting
  /\ resp = Raise(NoRequest, "ok")
  /\ QuietInit

IngestNext ==
  \/ CreateMapobjectType
  \/ AddSegmentations
  \/ DeleteMapobjects
  \/ DeleteMapobjectType
  \/ Respond

IngestSpec == IngestInit /\ [][IngestNext]_vars

----------------------------------------------------------------------------
(* The requests that register and delete features, on the same store *)

FeatureNext ==
  \/ AddFeatureValues
  \/ DeleteFeature
  \/ Respond

FeatureSpec == IngestInit /\ [][FeatureNext]_vars

----------------------------------------------------------------------------
(* The rows of the two CSV tables: generate_feature_matrix of               *)
(* get_feature_values and of get_metadata, as functions of the names they   *)
(* read from the enclosing handler and of one row of their query.           *)

\* the text csv.writer writes for a number from 0 to 9
Str(n) == <<"0", "1", "2", "3", "4", "5", "6", "7", "8", "9">>[n + 1]

\* the text csv.writer writes for a boolean
StrBool(b) == IF b THEN "True" ELSE "False"

RECURSIVE OrderById(_)
\* order_by(id): the rows in ascending id
OrderById(rows) ==
  IF rows = {} THEN <<>>
  ELSE LET r == CHOOSE r \in rows : \A q \in rows : r.id <= q.id
       IN <<r>> \o OrderById(rows \ {r})

\* [f.name for f in features], features ordered by tm.Feature.id
FeatureNamesQuery(fs, type) ==
  LET rows == OrderById({f \in fs : f.mapobject_type_id = type})
  IN [i \in 1..Len(rows) |-> rows[i].name]

RECURSIVE SortedKeys(_)
\* sorted(vals, key=lambda k: int(k)): the keys of a value map in ascending
\* order of the numbers they spell
SortedKeys(keys) ==
  IF keys = {} THEN <<>>
  ELSE LET k == CHOOSE k \in keys : \A j \in keys : k <= j
       IN <<k>> \o SortedKeys(keys \ {k})

\* vals of an object the outer join finds no value map for (vals is None):
\* the map whose only key is no id
NoValues == [k \in {0} |-> None]

\* the values of a row: str(nan) for every column when the object has no
\* value map, else the values of the map, one per key of the map
RowValues(vals, column_names) ==
  IF vals = NoValues THEN [i \in 1..Len(column_names) |-> "nan"]
  ELSE LET keys == SortedKeys(DOMAIN vals)
       IN [i \in 1..Len(keys) |-> vals[keys[i]]]

\* column_names = ('id', ) + tuple(feature_names)
FeatureMatrixHeader(feature_names) == <<"id">> \o feature_names

\* one data row of get_feature_values
FeatureMatrixRow(mapobject_id, vals, feature_names) ==
  <<Str(mapobject_id)>> \o RowValues(vals, feature_names)

\* position_names of get_metadata
PositionNames(ref_model_name) ==
  IF ref_model_name = "Plate" THEN <<"plate_name">>
  ELSE IF ref_model_name = "Well" THEN <<"plate_name", "well_name">>
  ELSE <<"plate_name", "well_name", "well_pos_y", "well_pos_x">>

\* position_values of get_metadata: four columns at every granularity, null
\* in those that do not apply
PositionValues(ref_model_name, site) ==
  LET well == CHOOSE w \in Wells : w.id = site.well_id
      plate == CHOOSE p \in Plates : p.id = well.plate_id
  IN IF ref_model_name = "Plate" THEN <<plate.name, "null", "null", "null">>
     ELSE IF ref_model_name = "Well"
     THEN <<plate.name, well.name, "null", "null">>
     ELSE <<plate.name, well.name, Str(site.y), Str(site.x)>>

MetadataHeader(ref_model_name, tool_result_names) ==
  <<"id">> \o PositionNames(ref_model_name)
           \o <<"tpoint", "label", "is_border">> \o tool_result_names

\* one data row of get_metadata: v.insert(0, id), v.extend(position_values),
\* v.extend([tpoint, label, is_border]) on the list of values
MetadataRow(mapobject_id, vals, position_values, tpoint, label, is_border, tool_result_names) ==
  <<Str(mapobject_id)>> \o RowValues(vals, tool_result_names)
                        \o position_values
                        \o <<Str(tpoint), Str(label), StrBool(is_border)>>

\* the features or tool results registered for the type, by id
Catalogs ==
  {{[id |-> i, name |-> <<"mean", "area", "size", "max">>[i],
     mapobject_type_id |-> 4] : i \in ids} :
     ids \in SUBSET (1..MaxFeatures)}

\* the value maps an object can have for a catalog: none, or one with any
\* of the registered ids as keys
ValueMaps(catalog) ==
  {NoValues} \cup UNION {[keys -> {"1.5", "2.5"}] :
                       keys \in SUBSET {f.id : f \in catalog}}

FormatInit ==
  /\ types = StaticTypes \cup {CellsType}
  /\ layers = StaticLayers \cup CellsLayers
  /\ segmentations = StaticSegmentations \cup {Seg(6, 7, 1, 1, 0, 1)}
  /\ mapobjects = StaticMapobjects \cup {CellsMapobject(Seg(6, 7, 1, 1, 0, 1))}
  /\ features \in Catalogs
  /\ featureValues = {}
  /\ sequences = [mapobject_types |-> 4, features |-> MaxFeatures]
  /\ deleting = NotDeleting
  /\ resp = Raise(NoRequest, "ok")
  /\ QuietInit

\* the header and one data row of get_feature_values
GenerateFeatureMatrix ==
  \E vals \in ValueMaps(features) :
    LET req == Request("generate_feature_matrix", None, None, NoInt, NoInt,
                       NoInt, NoInt, 4)
        feature_names == FeatureNamesQuery(features, 4)
    IN
    /\ resp.req.op = "none"
    /\ resp' = [Response(req, "ok", "Site", NoInt, NoRef, TRUE, {},
                         << FeatureMatrixHeader(feature_names),
                            FeatureMatrixRow(6, vals, feature_names) >>)
                  EXCEPT !.req.values = vals]
    /\ UNCHANGED <<gen, tool, upload, store, deleting>>

\* the header and one data row of get_metadata; the catalog is that of the
\* tool results of the type
GenerateMetadataMatrix ==
  \E vals \in ValueMaps(features), site \in Sites :
  \E ref_model_name \in {"Plate", "Well", "Site"}, is_border \in BOOLEAN :
    LET req == Request("generate_metadata_matrix", None, None, NoInt, NoInt,
                       0, NoInt, 4)
        tool_result_names == FeatureNamesQuery(features, 4)
    IN
    /\ resp.req.op = "none"
    /\ resp' = [Response(req, "ok", ref_model_name, site.well_id, NoRef, TRUE,
                         {site},
                         << MetadataHeader(ref_model_name, tool_result_names),
                            MetadataRow(6, vals,
                                        PositionValues(ref_model_name, site),
                                        0, 1, is_border, tool_result_names) >>)
                  EXCEPT !.req.values = vals, !.req.labels = <<is_border>>]
    /\ UNCHANGED <<gen, tool, upload, store, deleting>>

\* the tables of add_feature_values that pd.DataFrame accepts, and one whose
\* labels are 1 and 6
IngestTables ==
  {table \in ValueTables :
     DataFrameOk(table.names, table.labels, table.values)}
  \cup {[names |-> <<"area">>, labels |-> <<1, 6>>,
         values |-> <<(<<5>>), (<<9>>)>>]}

\* data.loc[label]: the row of values of the label in the index of the
\* DataFrame
Loc(table, label) ==
  table.values[CHOOSE i \in 1..Len(table.labels) : table.labels[i] = label]

\* the loop of add_feature_values over the rows (label, mapobject_id) of its
\* query, which unpacks a row as mapobject_id, label: the list handed to
\* session.bulk_ingest, or KeyError from data.loc, which the except clause
\* for IndexError does not catch
FeatureValuesRecords(segs, table, partition_key, tpoint) ==
  IF segs = <<>> THEN [exc |-> "ResourceNotFoundError", records |-> <<>>]
  ELSE IF \E i \in 1..Len(segs) : \A j \in 1..Len(table.labels) :
            table.labels[j] # segs[i].mapobject_id
  THEN [exc |-> "KeyError", records |-> <<>>]
  ELSE [exc |-> "ok",
        records |-> [i \in 1..Len(segs) |->
                       [partition_key |-> partition_key,
                        mapobject_id |-> segs[i].label,
                        values |-> Loc(table, segs[i].mapobject_id),
                        tpoint |-> tpoint]]]

\* the query for the segmentations a site encloses in the layer of the
\* user type at time point 0, and the records built from its rows
BulkIngestFeatureValues ==
  \E table \in IngestTables, site \in Sites :
    LET ref_segment == CHOOSE s \in RefSegmentQuery(site.id, 3, site.well_id) :
                         TRUE
        selected == ContainmentQuery(segmentations, site.well_id, {7},
                                     ref_segment)
    IN \E segs \in AnyOrder(selected) :
         LET req == [Request("bulk_ingest_feature_values", None, None,
                             site.y, site.x, 0, NoInt, 4)
                       EXCEPT !.names = table.names, !.labels = table.labels,
                              !.values = table.values]
             built == FeatureValuesRecords(segs, table, site.well_id, 0)
         IN
         /\ resp.req.op = "none"
         /\ resp' = Response(req, built.exc, "Site", site.well_id,
                             [lo |-> ref_segment.lo, hi |-> ref_segment.hi],
                             TRUE, {}, built.records)
         /\ UNCHANGED <<gen, tool, upload, store, deleting>>

FormatNext ==
  \/ GenerateFeatureMatrix
  \/ GenerateMetadataMatrix
  \/ BulkIngestFeatureValues
  \/ Respond

FormatSpec == FormatInit /\ [][FormatNext]_vars

----------------------------------------------------------------------------
(* The label results of the tools: tmaps/tool/result/label.py.  A dict is a *)
(* function from its keys to its values; a result holds the reference to    *)
(* the dict it was constructed with, which is the name of the dict in       *)
(* containers.                                                              *)

\* the labels a tool computed, for the objects 1..Len(labels)
LabelLists == {<<1>>, <<2>>, <<1, 2>>, <<2, 2>>}

\* d.update(u)
DictUpdate(d, u) ==
  [k \in DOMAIN d \cup DOMAIN u |-> IF k \in DOMAIN u THEN u[k] ELSE d[k]]

\* {'labels': list(set(labels))}
ScalarSummary(labels) == [labels |-> {labels[i] : i \in 1..Len(labels)}]

\* {'min': np.min(labels), 'max': np.max(labels)}
ContinuousSummary(labels) ==
  LET values == {labels[i] : i \in 1..Len(labels)}
  IN [min |-> CHOOSE v \in values : \A w \in values : v <= w,
      max |-> CHOOSE v \in values : \A w \in values : v >= w]

\* LabelResult.__init__: self.attributes is the dict that was passed, not a
\* copy of it; the row that is flushed and committed holds the content the
\* dict has then, and a LabelResultLabel is stored for every label
LabelResultInit(result_type, labels, attributes, content) ==
  [result_type |-> result_type, labels |-> labels,
   attributes |-> attributes, stored |-> content]

\* ScalarLabelResult(ids, labels, mapobject_type, session), with the default
\* of the parameter attributes or with the dict of the caller
NewScalarLabelResult ==
  \E labels \in LabelLists, attributes \in {"ScalarLabelResult", "caller"} :
    /\ Len(labelResults) < MaxResults
    /\ containers' = [containers EXCEPT
                        ![attributes] = DictUpdate(@, ScalarSummary(labels))]
    /\ labelResults' =
         Append(labelResults,
                LabelResultInit("ScalarLabelResult", labels, attributes,
                                containers'[attributes]))
    /\ UNCHANGED <<gen, upload, store, deleting, resp>>

\* ContinuousLabelResult(ids, labels, mapobject_type, session), likewise
NewContinuousLabelResult ==
  \E labels \in LabelLists, attributes \in {"ContinuousLabelResult", "caller"} :
    /\ Len(labelResults) < MaxResults
    /\ containers' = [containers EXCEPT
                        ![attributes] = DictUpdate(@, ContinuousSummary(labels))]
    /\ labelResults' =
         Append(labelResults,
                LabelResultInit("ContinuousLabelResult", labels, attributes,
                                containers'[attributes]))
    /\ UNCHANGED <<gen, upload, store, deleting, resp>>

LabelNext ==
  \/ NewScalarLabelResult
  \/ NewContinuousLabelResult

LabelSpec == IngestInit /\ [][LabelNext]_vars

----------------------------------------------------------------------------
(* POST .../upload/upload-file: tmserver/experiment/upload.py.  The server  *)
(* runs several requests at a time; a request is at one of the statements   *)
(* that read or write the database or the disk, and the requests interleave *)
(* between them.  No statement of the handler locks the row of the file.    *)

\* request.files.get('file'): the name of a registered file, of a file
\* that was never registered, or None when the form has no file
UploadNames == DOMAIN RegisteredFiles \cup {"zz.png", None}

\* tm.Acquisition.status is COMPLETE when every file of the acquisition is
AcquisitionComplete(fs) == \A name \in DOMAIN fs : fs[name] = "COMPLETE"

\* how a request ends
Ended(filename, exc) == [pc |-> "done", filename |-> filename, exc |-> exc]

\* from the start of the handler to the test of the status of the file
UploadFileCheck ==
  \E u \in 1..MaxUploads, filename \in UploadNames :
    /\ uploads[u].pc = "idle"
    /\ uploads' = [uploads EXCEPT ![u] =
         IF filename = None THEN Ended(filename, "MalformedRequestError")
         ELSE IF AcquisitionComplete(files) THEN Ended(filename, "ok")
         ELSE IF filename \notin DOMAIN files
         THEN Ended(filename, "MalformedRequestError")
         ELSE IF files[filename] \in {"COMPLETE", "UPLOADING"}
         THEN Ended(filename, "ok")
         ELSE [pc |-> "checked", filename |-> filename, exc |-> "ok"]]
    /\ UNCHANGED <<gen, tool, files, store, deleting, resp>>

\* file_obj.status = UPLOADING; session.add(file_obj); session.commit()
UploadFileMark ==
  \E u \in 1..MaxUploads :
    /\ uploads[u].pc = "checked"
    /\ files' = [files EXCEPT ![uploads[u].filename] = "UPLOADING"]
    /\ uploads' = [uploads EXCEPT ![u].pc = "saving"]
    /\ UNCHANGED <<gen, tool, store, deleting, resp>>

\* f.save(file_obj.location) and the end of the session: the status COMPLETE
\* is committed when the with block is left; when save raises, the status
\* FAILED is set on the object and InternalServerError leaves the with
\* block, which rolls the session back
UploadFileSave ==
  \E u \in 1..MaxUploads, saved \in BOOLEAN :
    /\ uploads[u].pc = "saving"
    /\ files' = IF saved
                THEN [files EXCEPT ![uploads[u].filename] = "COMPLETE"]
                ELSE files
    /\ uploads' = [uploads EXCEPT ![u] =
         Ended(uploads[u].filename,
               IF saved THEN "ok" ELSE "InternalServerError")]
    /\ UNCHANGED <<gen, tool, store, deleting, resp>>

\* the response is sent; the worker serves the next request
UploadFileReturn ==
  \E u \in 1..MaxUploads :
    /\ uploads[u].pc = "done"
    /\ uploads' = [uploads EXCEPT ![u] = NoUpload]
    /\ UNCHANGED <<gen, tool, files, store, deleting, resp>>

UploadNext ==
  \/ UploadFileCheck
  \/ UploadFileMark
  \/ UploadFileSave
  \/ UploadFileReturn

UploadSpec == IngestInit /\ [][UploadNext]_vars

----------------------------------------------------------------------------
(* The generator of get_feature_values, generate_feature_matrix, as the     *)
(* server iterates it: one action per run from one yield to the next.  It   *)
(* reads feature_names and instances as the handler binds them and takes    *)
(* the rows of its queries as they come; requests that register features    *)
(* are served between two runs.  The generator of get_metadata has the same *)
(* yield statements at the same places.                                     *)

RECURSIVE OrderByMapobjectId(_)
\* order_by(tm.MapobjectSegmentation.mapobject_id)
OrderByMapobjectId(rows) ==
  IF rows = {} THEN <<>>
  ELSE LET r == CHOOSE r \in rows : \A q \in rows :
                  r.mapobject_id <= q.mapobject_id
       IN <<r>> \o OrderByMapobjectId(rows \ {r})

\* the segmentations the query of a block selects for a reference instance
\* of the wells: those of the user type that its outline covers
BlockQuery(ref_id, partition_key) ==
  LET ref_segment == CHOOSE s \in RefSegmentQuery(ref_id, 2, partition_key) :
                       TRUE
      layer_ids == {l.id : l \in {l \in layers : l.mapobject_type_id = 4}}
  IN OrderByMapobjectId(ContainmentQuery(segmentations, partition_key,
                                         layer_ids, ref_segment))

\* the value map the outer join returns with an object: none, or the map
\* with a value for every feature registered when the block is queried
BlockValueMaps(catalog) ==
  {NoValues, [k \in {f.id : f \in catalog} |-> "1.5"]}

\* the handler binds feature_names and instances and hands the generator to
\* the Response
StartStream ==
  \E names \in TableNamePairs :
  \E instances \in AnyOrder(WellInstances(names[1], names[2])) :
    /\ gen.pc = "none"
    /\ instances # <<>>
    /\ gen' = [NoStream EXCEPT
                 !.pc = "created",
                 !.feature_names = FeatureNamesQuery(features, 4),
                 !.instances = instances]
    /\ UNCHANGED <<tool, upload, store, deleting, resp>>

\* the first run: the header is written and yielded
NextHeader ==
  /\ gen.pc = "created"
  /\ gen' = [gen EXCEPT
               !.pc = "header",
               !.data = <<FeatureMatrixHeader(gen.feature_names)>>,
               !.chunks = Append(@, <<FeatureMatrixHeader(gen.feature_names)>>)]
  /\ UNCHANGED <<tool, upload, store, deleting, resp>>

\* a run that ends at the yield of a block: the buffer is emptied, the with
\* block of the block before is left, the session of the next instance is
\* opened, its rows are queried and written, and the buffer is yielded from
\* inside the with block
NextBlock ==
  /\ gen.pc \in {"header", "block"}
  /\ gen.i < Len(gen.instances)
  /\ \E vals \in BlockValueMaps(features) :
       LET inst == gen.instances[gen.i + 1]
           feature_values == BlockQuery(inst.ref_id, inst.partition_key)
           rows == [r \in 1..Len(feature_values) |->
                      FeatureMatrixRow(feature_values[r].mapobject_id, vals,
                                       gen.feature_names)]
       IN gen' = [gen EXCEPT !.pc = "block", !.i = @ + 1, !.session = TRUE,
                             !.data = rows, !.chunks = Append(@, rows)]
  /\ UNCHANGED <<tool, upload, store, deleting, resp>>

\* the last run: the buffer is emptied, the with block is left and the loop
\* ends
StopIteration ==
  /\ gen.pc \in {"header", "block"}
  /\ gen.i = Len(gen.instances)
  /\ gen' = [gen EXCEPT !.pc = "done", !.session = FALSE, !.data = <<>>]
  /\ UNCHANGED <<tool, upload, store, deleting, resp>>

StreamNext ==
  \/ StartStream
  \/ NextHeader
  \/ NextBlock
  \/ StopIteration
  \/ AddFeatureValues
  \/ Respond

StreamSpec == FormatInit /\ [][StreamNext]_vars

----------------------------------------------------------------------------
(* Vocabulary of the properties *)

PosOps == {"add_segmentations", "get_segmentations", "add_feature_values",
           "get_feature_values", "get_metadata"}

PostOps == {"add_segmentations", "add_feature_values"}

TableOps == {"get_feature_values", "get_metadata"}

ExactlyOnePos(req) ==
  (req.well_pos_y = NoInt) # (req.well_pos_x = NoInt)

BothPos(req) == req.well_pos_y # NoInt /\ req.well_pos_x # NoInt

NoPos(req) == req.well_pos_y = NoInt /\ req.well_pos_x = NoInt

\* the request did nothing but fail: no reference resolved, no instance
\* queried, nothing returned
Rejected(r) ==
  /\ r.ref_kind = None
  /\ r.partition_key = NoInt
  /\ ~r.queried
  /\ r.rows = <<>>

\* the reference kind of the mapobject type of a request, None if unknown
RefTypeOf(req) ==
  LET found == {t \in types : t.id = req.mapobject_type_id} IN
  IF found = {} THEN None ELSE (CHOOSE t \in found : TRUE).ref_type

\* the wells and sites the names and coordinates of a request stand for
NamedWells(req) == WellQuery(req.plate_name, req.well_name)

NamedSites(req) ==
  {s \in Sites : /\ s.y = req.well_pos_y /\ s.x = req.well_pos_x
                 /\ \E w \in NamedWells(req) : s.well_id = w.id}

\* the outline of a well or site: its extent on the global axis
Outline(inst) == [lo |-> inst.offset, hi |-> inst.offset + inst.image_size]

----------------------------------------------------------------------------
\* C1: in every operation that takes well_pos_y / well_pos_x, a request that
\* supplies exactly one of the two ends in a malformed-input error and
\* neither resolves a region nor returns data.
C1_PairingAlwaysMalformed ==
  (resp.req.op \in PosOps /\ ExactlyOnePos(resp.req))
    => (resp.exc \in MalformedInputErrors /\ Rejected(resp))

----------------------------------------------------------------------------
\* C2: in add_segmentations and add_feature_values a request with neither
\* well_pos_y nor well_pos_x raises no parameter error, and when its well
\* exists it is resolved at Well granularity with the id of that well as
\* partition_key.
C2_NeitherResolvesWell ==
  (resp.req.op \in PostOps /\ NoPos(resp.req))
    => /\ resp.exc \notin MalformedInputErrors
       /\ \A w \in NamedWells(resp.req) :
            resp.ref_kind = "Well" /\ resp.partition_key = w.id

----------------------------------------------------------------------------
\* C3: get_feature_values and get_metadata raise MalformedRequestError, before
\* any reference instance is queried, exactly for the requests that are
\* finer than the reference kind of the mapobject type: a site position
\* against Plate or Well, a well name against Plate.
C3_Finer(req) ==
  \/ ~NoPos(req) /\ RefTypeOf(req) \in {"Plate", "Well"}
  \/ req.well_name # None /\ RefTypeOf(req) = "Plate"

C3_GranularityRejected ==
  resp.req.op \in TableOps
    => /\ C3_Finer(resp.req)
            => (resp.exc = "MalformedRequestError" /\ Rejected(resp))
       /\ ~C3_Finer(resp.req) => resp.exc # "MalformedRequestError"

\* a well name against the Plate type, and a position against the Well type,
\* have been rejected
C3_Witness ==
  /\ resp.req.op \in TableOps
  /\ resp.exc = "MalformedRequestError"
  /\ \/ NoPos(resp.req) /\ resp.req.well_name = "A"
        /\ RefTypeOf(resp.req) = "Plate"
     \/ resp.req.well_pos_x = 1 /\ resp.req.well_pos_y = NoInt
        /\ RefTypeOf(resp.req) = "Well"

----------------------------------------------------------------------------
\* C4: a request that passes the parameter checks and whose plate name, well
\* name or site coordinates match no stored plate, well or site ends in
\* NotFound, in every operation; so does a table request whose filters select
\* no reference instance.
C4_PassedChecks(req) ==
  CASE req.op \in PostOps ->
         /\ BothPos(req)
         /\ req.op = "add_feature_values"
              => DataFrameOk(req.names, req.labels, req.values)
    [] req.op = "get_segmentations" -> TRUE
    [] req.op \in TableOps -> ~C3_Finer(req) /\ RefTypeOf(req) # None
    [] OTHER -> FALSE

C4_Unmatched(req) ==
  CASE req.op \in PostOps \cup {"get_segmentations"} ->
         \/ NamedWells(req) = {}
         \/ BothPos(req) /\ NamedSites(req) = {}
    [] req.op \in TableOps ->
         IF NoPos(req)
         THEN WellInstances(req.plate_name, req.well_name) = {}
         ELSE SiteInstances(req.plate_name, req.well_name,
                            req.well_pos_y, req.well_pos_x) = {}
    [] OTHER -> FALSE

C4_UnmatchedIsNotFound ==
  (C4_PassedChecks(resp.req) /\ C4_Unmatched(resp.req))
    => resp.exc \in NotFoundErrors

----------------------------------------------------------------------------
\* C5 (as claimed): every object a containment query returns has the
\* partition_key of the owning well of the reference instance, lies in the
\* requested layer, is covered by the reference polygon and does not touch
\* the boundary of the reference polygon.
C5_ReferenceInstances(req) ==
  IF BothPos(req) THEN NamedSites(req) ELSE NamedWells(req)

C5_RequestedLayers(req) ==
  {l.id : l \in LayerRows(layers, req.mapobject_type_id, req.tpoint,
                          req.zplane)}

C5_Selected(r, touching) ==
  \A i \in 1..Len(r.rows) :
    /\ \A w \in NamedWells(r.req) : r.rows[i].partition_key = w.id
    /\ r.rows[i].segmentation_layer_id \in C5_RequestedLayers(r.req)
    /\ \A inst \in C5_ReferenceInstances(r.req) :
         /\ ST_CoveredBy(r.rows[i], Outline(inst))
         /\ ~touching => ~ST_IntersectsBoundary(r.rows[i], Outline(inst))

C5_NoBoundaryObjectReturned ==
  (resp.req.op = "get_segmentations" /\ resp.exc = "ok")
    => (NamedWells(resp.req) # {} /\ C5_Selected(resp, FALSE))

\* C5 (amended): every object a containment query returns has the
\* partition_key of the owning well of the reference instance, lies in the
\* requested layer and is covered by the reference polygon; an object that
\* lies inside the reference polygon and touches its boundary is returned.
C5_ContainmentSelection ==
  (resp.req.op = "get_segmentations" /\ resp.exc = "ok")
    => (NamedWells(resp.req) # {} /\ C5_Selected(resp, TRUE))

\* a query for well A returned an object that touches the outline of the
\* well, while the store held an object of another layer and one of the
\* same layer that is not covered
C5_Witness ==
  /\ resp.req.op = "get_segmentations" /\ resp.exc = "ok"
  /\ resp.ref_kind = "Well"
  /\ \E i \in 1..Len(resp.rows) :
       ST_IntersectsBoundary(resp.rows[i], resp.ref)
  /\ \E s \in segmentations :
       /\ s.partition_key = resp.partition_key
       /\ \/ /\ s.segmentation_layer_id \notin C5_RequestedLayers(resp.req)
             /\ ST_CoveredBy(s, resp.ref)
             /\ s.mapobject_id \notin {m.id : m \in StaticMapobjects}
          \/ /\ s.segmentation_layer_id \in C5_RequestedLayers(resp.req)
             /\ ~ST_CoveredBy(s, resp.ref)

----------------------------------------------------------------------------
\* C6: every containment query returns its objects in ascending mapobject_id
\* order.
C6_AscendingMapobjectId ==
  (resp.req.op = "get_segmentations" /\ resp.exc = "ok")
    => \A i, j \in 1..Len(resp.rows) :
         i < j => resp.rows[i].mapobject_id <= resp.rows[j].mapobject_id

----------------------------------------------------------------------------
\* C7: a containment query that selects no object ends in NotFound:
\* get_segmentations raises it, and a table request whose reference
\* instances enclose no object of the type emits no row at all.
C7_TableInstances(req) ==
  IF NoPos(req)
  THEN {[ref_id |-> w.id, partition_key |-> w.id, outline |-> Outline(w)] :
          w \in {w \in Wells :
                   [ref_id |-> w.id, partition_key |-> w.id]
                     \in WellInstances(req.plate_name, req.well_name)}}
  ELSE {[ref_id |-> x.id, partition_key |-> x.well_id, outline |-> Outline(x)] :
          x \in {x \in Sites :
                   [ref_id |-> x.id, partition_key |-> x.well_id]
                     \in SiteInstances(req.plate_name, req.well_name,
                                       req.well_pos_y, req.well_pos_x)}}

C7_TableLayers(req) ==
  {l.id : l \in {l \in layers :
                   /\ l.mapobject_type_id = req.mapobject_type_id
                   /\ req.tpoint # NoInt => l.tpoint = req.tpoint}}

\* the objects a table request is about, per reference instance
C7_TableSelection(req, inst) ==
  ContainmentQuery(segmentations, inst.partition_key, C7_TableLayers(req),
                   inst.outline)

C7_TableRequestValid(req) ==
  /\ req.op \in TableOps
  /\ C4_PassedChecks(req)
  /\ C7_TableInstances(req) # {}

C7_EmptyIsNotFound ==
  /\ (resp.req.op = "get_segmentations" /\ resp.queried
        /\ ContainmentQuery(segmentations, resp.partition_key,
                            C5_RequestedLayers(resp.req), resp.ref) = {})
       => (resp.exc \in NotFoundErrors /\ resp.rows = <<>>)
  /\ (C7_TableRequestValid(resp.req)
        /\ \A inst \in C7_TableInstances(resp.req) :
             C7_TableSelection(resp.req, inst) = {})
       => (resp.exc \in NotFoundErrors /\ resp.rows = <<>>)

----------------------------------------------------------------------------
\* C8: the objects get_segmentations returns for a site of a well are among
\* those it returns for the well, with the same mapobject type, time point
\* and z-plane, on the same store.
C8_Objects(r) == {r.rows[i] : i \in 1..Len(r.rows)}

C8_WellRequest(req) ==
  [req EXCEPT !.well_pos_y = NoInt, !.well_pos_x = NoInt]

C8_SiteSubsetOfWell ==
  (resp.req.op = "get_segmentations" /\ BothPos(resp.req))
    => \A w \in GetSegmentationsResponses(C8_WellRequest(resp.req)) :
         C8_Objects(resp) \subseteq C8_Objects(w)

\* a site query returned an object, and the query for its well returns that
\* object and another one
C8_Witness ==
  /\ resp.req.op = "get_segmentations" /\ BothPos(resp.req)
  /\ resp.exc = "ok" /\ resp.ref_kind = "Site"
  /\ C8_Objects(resp) # {}
  /\ \E w \in GetSegmentationsResponses(C8_WellRequest(resp.req)) :
       w.exc = "ok" /\ C8_Objects(w) \ C8_Objects(resp) # {}

----------------------------------------------------------------------------
\* C9: a get_feature_values request that passes the parameter checks and has
\* a reference instance emits the header as its first row and only there:
\* id, then the names of the features of the type in ascending feature id.
RECURSIVE C9_NamesById(_)
C9_NamesById(fs) ==
  IF fs = {} THEN <<>>
  ELSE LET f == CHOOSE f \in fs : \A g \in fs : f.id <= g.id
       IN <<f.name>> \o C9_NamesById(fs \ {f})

C9_Header(req) ==
  <<"id">> \o C9_NamesById({f \in features :
                              f.mapobject_type_id = req.mapobject_type_id})

C9_HeaderFirst ==
  (resp.req.op = "get_feature_values" /\ C7_TableRequestValid(resp.req))
    => /\ Len(resp.rows) >= 1
       /\ resp.rows[1] = C9_Header(resp.req)
       /\ \A i \in 2..Len(resp.rows) : resp.rows[i][1] # "id"

----------------------------------------------------------------------------
\* C10: the table of get_feature_values has one data row for every object
\* the containment queries of its reference instances select.
RECURSIVE C10_Count(_, _)
C10_Count(req, insts) ==
  IF insts = {} THEN 0
  ELSE LET inst == CHOOSE i \in insts : TRUE
       IN Cardinality(C7_TableSelection(req, inst))
            + C10_Count(req, insts \ {inst})

C10_RowPerObject ==
  (resp.req.op = "get_feature_values" /\ C7_TableRequestValid(resp.req))
    => Len(resp.rows) = 1 + C10_Count(resp.req, C7_TableInstances(resp.req))

----------------------------------------------------------------------------
\* C11: every data row of get_feature_values has as many cells as the header
\* and holds, under the column of every feature the value map of the object
\* has a key for, the value of that key.
C11_FeatureIds ==
  LET rows == OrderById({f \in features : f.mapobject_type_id = 4})
  IN [i \in 1..Len(rows) |-> rows[i].id]

C11_ColumnsStable ==
  resp.req.op = "generate_feature_matrix"
    => LET header == resp.rows[1]
           row == resp.rows[2]
           vals == resp.req.values
       IN /\ Len(row) = Len(header)
          /\ \A i \in 1..Len(C11_FeatureIds) :
               C11_FeatureIds[i] \in DOMAIN vals
                 => row[i + 1] = vals[C11_FeatureIds[i]]

----------------------------------------------------------------------------
\* C12: the header and every data row of get_metadata have the same layout:
\* id, the positional columns of the granularity, tpoint, label, is_border,
\* then the value columns; a row has as many cells as the header.
C12_Positions(kind, site) ==
  LET all == PositionValues("Site", site)
  IN [i \in 1..Len(PositionNames(kind)) |-> all[i]]

C12_SameLayout ==
  resp.req.op = "generate_metadata_matrix"
    => LET header == resp.rows[1]
           row == resp.rows[2]
           site == CHOOSE s \in resp.instances : TRUE
           n == Len(PositionNames(resp.ref_kind))
       IN /\ Len(row) = Len(header)
          /\ \A i \in 1..n : row[1 + i] = C12_Positions(resp.ref_kind, site)[i]
          /\ row[n + 2] = Str(resp.req.tpoint)
          /\ row[n + 4] = StrBool(resp.req.labels[1])

----------------------------------------------------------------------------
\* C13: a raster posted through add_segmentations for a site is what
\* get_segmentations returns for that site afterwards.  For that the post
\* has to succeed and has to leave, in the layer of the request, one
\* segmentation per label of the raster with the region of that label.
C13_Labels(image) == {image[i] : i \in 1..Len(image)} \ {0}

C13_Region(image, label, offset) ==
  LET pixels == {i \in 1..Len(image) : image[i] = label}
  IN [lo |-> offset + (CHOOSE i \in pixels : \A j \in pixels : i <= j) - 1,
      hi |-> offset + (CHOOSE i \in pixels : \A j \in pixels : i >= j)]

C13_SiteRaster(req) ==
  /\ req.op = "add_segmentations"
  /\ BothPos(req)
  /\ \E site \in NamedSites(req) : Len(req.image) = site.image_size

C13_PostedRasterStored ==
  C13_SiteRaster(resp.req)
    => /\ resp.exc = "ok"
       /\ \A site \in NamedSites(resp.req) :
          \A label \in C13_Labels(resp.req.image) :
            \E s \in segmentations :
              /\ s.label = label
              /\ s.partition_key = site.well_id
              /\ \E l \in LayerRows(layers, resp.req.mapobject_type_id,
                                     resp.req.tpoint, resp.req.zplane) :
                   s.segmentation_layer_id = l.id
              /\ s.lo = C13_Region(resp.req.image, label, site.offset).lo
              /\ s.hi = C13_Region(resp.req.image, label, site.offset).hi

----------------------------------------------------------------------------
\* C14: no two segmentations share (segmentation_layer_id, partition_key,
\* label), and an add_segmentations request whose raster carries a label that
\* the layer of the request already holds in the partition of the site fails
\* with ConflictError.
C14_LabelsUnique ==
  \A s1, s2 \in segmentations :
    (/\ s1.segmentation_layer_id = s2.segmentation_layer_id
     /\ s1.partition_key = s2.partition_key
     /\ s1.label = s2.label) => s1 = s2

C14_Duplicate(req) ==
  /\ C13_SiteRaster(req)
  /\ \E site \in NamedSites(req), s \in segmentations :
       /\ s.label \in C13_Labels(req.image)
       /\ s.partition_key = site.well_id
       /\ \E l \in LayerRows(layers, req.mapobject_type_id, req.tpoint,
                              req.zplane) : s.segmentation_layer_id = l.id

C14_DuplicateIsConflict ==
  /\ C14_LabelsUnique
  /\ C14_Duplicate(resp.req) => resp.exc = "ConflictError"

----------------------------------------------------------------------------
----------------------------------------------------------------------------
\* C16: get_segmentations, get_feature_values and get_metadata leave the
\* store as it is.
C16_QueryOps == {"get_segmentations", "get_feature_values", "get_metadata"}

C16_QueriesLeaveStoreUnchanged ==
  [][(resp.req.op = "none" /\ resp'.req.op \in C16_QueryOps)
       => UNCHANGED store]_vars

----------------------------------------------------------------------------
\* C18: an add_segmentations request whose raster is not as large as the
\* reference instance it resolved fails with a malformed-input error and
\* creates no Mapobject, no MapobjectSegmentation and no SegmentationLayer.
C18_WrongShape(r) ==
  /\ r.req.op = "add_segmentations"
  /\ r.ref # NoRef
  /\ Len(r.req.image) # r.ref.hi - r.ref.lo

C18_ShapeMismatchCreatesNothing ==
  [][(resp.req.op = "none" /\ C18_WrongShape(resp'))
       => /\ resp'.exc \in MalformedInputErrors
          /\ UNCHANGED <<mapobjects, segmentations, layers>>]_vars

----------------------------------------------------------------------------
\* C19: once delete_mapobject_type has deleted the Mapobjects of a type, and
\* when it has completed, no Mapobject of the type is in the store and no
\* MapobjectSegmentation or FeatureValues row without its Mapobject, whatever
\* requests were served between its two statements.
C19_Deleted(type) ==
  /\ \A m \in mapobjects : m.mapobject_type_id # type
  /\ \A r \in segmentations \cup featureValues :
       \E m \in mapobjects : /\ m.id = r.mapobject_id
                              /\ m.partition_key = r.partition_key

----------------------------------------------------------------------------
\* C20: every key of every stored value map is the id of a registered
\* feature of the mapobject type of the object.
C20_KeysAreRegistered ==
  \A v \in featureValues : \A k \in DOMAIN v.values :
    \E f \in features, m \in mapobjects :
      /\ f.id = k
      /\ m.id = v.mapobject_id
      /\ m.partition_key = v.partition_key
      /\ f.mapobject_type_id = m.mapobject_type_id

----------------------------------------------------------------------------
\* C21: every FeatureValues record add_feature_values builds for storing has
\* the mapobject_id of a segmentation the reference encloses, whose Mapobject
\* is in the partition of the record, and carries the values supplied for
\* the label of that segmentation.
C21_RecordsKeyedByMapobject ==
  resp.req.op = "bulk_ingest_feature_values"
    => \A i \in 1..Len(resp.rows) :
         \E s \in ContainmentQuery(segmentations, resp.partition_key, {7},
                                   resp.ref) :
           /\ s.mapobject_id = resp.rows[i].mapobject_id
           /\ \E m \in mapobjects :
                /\ m.id = s.mapobject_id
                /\ m.partition_key = resp.rows[i].partition_key
           /\ \E j \in 1..Len(resp.req.labels) :
                /\ resp.req.labels[j] = s.label
                /\ resp.rows[i].values = resp.req.values[j]

----------------------------------------------------------------------------
\* C22: an add_feature_values request that fails leaves the store as it
\* was: no FeatureValues record and no Feature entry of the request persists.
C22_FailedRequestPersistsNothing ==
  [][(/\ resp.req.op = "none"
      /\ resp'.req.op = "add_feature_values"
      /\ resp'.exc # "ok")
       => UNCHANGED <<features, featureValues>>]_vars

----------------------------------------------------------------------------
\* C24: add_segmentations stores one new segmentation for each label of the
\* raster; it attaches it to the Mapobject that already had a segmentation
\* with the label in the partition and creates no Mapobject then, and it
\* creates and stores exactly one new Mapobject for the label otherwise.
C24_Existing(label, pk, type) ==
  {m \in mapobjects :
     /\ m.mapobject_type_id = type
     /\ m.partition_key = pk
     /\ \E s \in segmentations : /\ s.mapobject_id = m.id
                                  /\ s.partition_key = pk
                                  /\ s.label = label}

C24_OneMapobjectPerNewLabel ==
  [][(resp.req.op = "none" /\ C13_SiteRaster(resp'.req))
       => \A site \in NamedSites(resp'.req) :
          \A label \in C13_Labels(resp'.req.image) :
            LET old == C24_Existing(label, site.well_id,
                                    resp'.req.mapobject_type_id)
                new == {s \in segmentations' \ segmentations :
                          /\ s.label = label
                          /\ s.partition_key = site.well_id}
                created == {m \in mapobjects' \ mapobjects :
                              \E s \in new : s.mapobject_id = m.id}
            IN /\ Cardinality(new) = 1
               /\ IF old # {}
                  THEN /\ created = {}
                       /\ \A s \in new : \E m \in old : s.mapobject_id = m.id
                  ELSE Cardinality(created) = 1]_vars

----------------------------------------------------------------------------
\* C23: every ScalarLabelResult and ContinuousLabelResult has an attributes
\* container of its own, also when the caller passed one, and after any
\* sequence of constructions the container of a result holds the summary of
\* the labels of that result and nothing else.
C23_Summary(r) ==
  IF r.result_type = "ScalarLabelResult" THEN ScalarSummary(r.labels)
  ELSE ContinuousSummary(r.labels)

C23_FreshAttributes ==
  /\ \A i, j \in 1..Len(labelResults) :
       i # j => labelResults[i].attributes # labelResults[j].attributes
  /\ \A i \in 1..Len(labelResults) :
       /\ DOMAIN containers[labelResults[i].attributes]
            = DOMAIN C23_Summary(labelResults[i])
       /\ \A k \in DOMAIN C23_Summary(labelResults[i]) :
            containers[labelResults[i].attributes][k]
              = C23_Summary(labelResults[i])[k]

----------------------------------------------------------------------------
\* C29: under any interleaving of upload_file requests at most one request
\* at a time writes a file to disk, and none writes a file whose status is
\* COMPLETE.
C29_Writers(name) ==
  {u \in 1..MaxUploads :
     uploads[u].pc = "saving" /\ uploads[u].filename = name}

C29_OneWriterPerFile ==
  \A name \in DOMAIN files :
    /\ Cardinality(C29_Writers(name)) <= 1
    /\ files[name] = "COMPLETE" => C29_Writers(name) = {}

----------------------------------------------------------------------------
\* C30: when saving the file fails the stored status of the file is FAILED
\* until a later request uploads the file again, and no file is UPLOADING
\* unless a request is writing it.
C30_NoFileStaysUploading ==
  /\ \A u \in 1..MaxUploads :
       (uploads[u].pc = "done" /\ uploads[u].exc = "InternalServerError")
         => \/ files[uploads[u].filename] \in {"FAILED", "COMPLETE"}
            \/ C29_Writers(uploads[u].filename) # {}
  /\ \A name \in DOMAIN files :
       files[name] = "UPLOADING" => C29_Writers(name) # {}

----------------------------------------------------------------------------
\* C26: the generator of a table is never suspended at a yield while a
\* session is open.
C26_NoSessionWhileSuspended ==
  gen.pc \in {"header", "block"} => ~gen.session

----------------------------------------------------------------------------
\* C28: every row of every block of a streamed table has as many cells as
\* the header, also when a feature was registered, and values for it were
\* stored, after the header was produced.
C28_BlocksKeepHeaderWidth ==
  \A c \in 2..Len(gen.chunks) : \A r \in 1..Len(gen.chunks[c]) :
    Len(gen.chunks[c][r]) = Len(gen.chunks[1][1])

----------------------------------------------------------------------------
\* C27: the chunks of a table request that passes the checks and has a
\* reference instance make up the whole table: the header comes first, and
\* every object the query of an instance selects has exactly one row, no row
\* being dropped or emitted twice.
C27_WholeTableInChunks ==
  C7_TableRequestValid(resp.req)
    => /\ Len(resp.rows) >= 1
       /\ \A inst \in C7_TableInstances(resp.req) :
          \A s \in C7_TableSelection(resp.req, inst) :
            Cardinality({i \in 2..Len(resp.rows) :
                           resp.rows[i][1] = s.mapobject_id}) = 1

====
